---- MODULE Spec2Model ----
(***************************************************************************)
(* Wallet orchestration of stellar-as-a-service (services.WalletService    *)
(* and controllers.WalletController) run against a model of the remote     *)
(* ledger node (Horizon + the ledger's transaction rules).                 *)
(* The handlers of the single-file program are run beside each request.    *)
(*                                                                         *)
(* Every request is one call slot.  Local computation (parsing, building,  *)
(* signing) is atomic; the two network calls of a request (AccountDetail   *)
(* and SubmitTransaction) are the points where other requests interleave.  *)
(*                                                                         *)
(* Amounts are integers counted in units of 0.5 (so "0.5" is 1, "1" is 2,  *)
(* "100" is 200).  Network fees are not charged in the model.  Time is in   *)
(* seconds; it stands still under Spec and advances under SpecAllSteps.    *)
(***************************************************************************)
EXTENDS Integers, Sequences, FiniteSets, TLC

\* Total number of requests served in one behaviour.
MaxCalls == 3
\* Number of requests in flight at once (the request layer's limit).
MaxInFlight == 2

Slots == 1..MaxInFlight

VARIABLES
    config,     \* services.Config: Network, MasterSecret, HorizonClient, USDCAsset
    ledger,     \* the remote ledger's accounts
    calls,      \* the requests in flight, one per slot
    handlers,   \* the single-file handler run beside each request
    started,    \* number of requests started so far
    nkeys,      \* number of keypairs generated so far
    now         \* the time, in seconds

vars == <<config, ledger, calls, handlers, started, nkeys, now>>

-----------------------------------------------------------------------------
(* Key strings.  A string handed to the keypair package is modelled by its *)
(* encoding class and the account it encodes: a seed ("S..."), an address  *)
(* ("G..."), or anything else.                                             *)

Seed(a)    == [enc |-> "seed", of |-> a]
AddrStr(a) == [enc |-> "address", of |-> a]
Garbage    == [enc |-> "garbage", of |-> "?"]
NoStr      == [enc |-> "empty", of |-> ""]

\* The issuer main configures for the designated asset: a string of 57
\* characters, one more than an address has, which is therefore no address.
USDCIssuer ==
    [enc |-> "garbage", of |-> "GA5ZSEJYB37JRC5AVCIA5MOP4RHTM335X2KGX3IHOJAPP5RE34KPPVPQS"]

\* Accounts of the ledger.  LedgerIssuer is the account that issues the USDC
\* asset the ledger's trustlines are for.
Master  == "GMASTER"
LedgerIssuer  == "GISSUER"
User1   == "GU1"
User2   == "GU2"
Absent  == "GU3"
KeyPool == <<"GN1", "GN2", "GN3", "GN4", "GN5">>
NewKeys == {KeyPool[i] : i \in 1..Len(KeyPool)}
Addresses == {Master, LedgerIssuer, User1, User2, Absent} \cup NewKeys

\* keypair.Random(): the n-th generated key of the process is fresh.
Random(n) == KeyPool[n]

\* keypair.ParseFull: only a seed yields a signing key.
ParseFull(s) ==
    IF s.enc = "seed" THEN [err |-> FALSE, full |-> TRUE, addr |-> s.of]
    ELSE [err |-> TRUE, full |-> FALSE, addr |-> ""]

\* keypair.ParseAddress: only an address string is accepted.
ParseAddress(s) ==
    IF s.enc = "address" THEN [err |-> FALSE, full |-> FALSE, addr |-> s.of]
    ELSE [err |-> TRUE, full |-> FALSE, addr |-> ""]

\* keypair.Parse: a seed gives a Full keypair, an address a FromAddress one.
Parse(s) ==
    CASE s.enc = "seed"    -> [err |-> FALSE, full |-> TRUE, addr |-> s.of]
      [] s.enc = "address" -> [err |-> FALSE, full |-> FALSE, addr |-> s.of]
      [] OTHER             -> [err |-> TRUE, full |-> FALSE, addr |-> ""]

-----------------------------------------------------------------------------
(* Amount strings.                                                         *)

\* strconv.ParseFloat(s, 64): "NaN" parses without error to a NaN.
ParseFloat(s) ==
    CASE s = "0"   -> [err |-> FALSE, nan |-> FALSE, val |-> 0]
      [] s = "-5"  -> [err |-> FALSE, nan |-> FALSE, val |-> -10]
      [] s = "NaN" -> [err |-> FALSE, nan |-> TRUE,  val |-> 0]
      [] s = "1"   -> [err |-> FALSE, nan |-> FALSE, val |-> 2]
      [] s = "2"   -> [err |-> FALSE, nan |-> FALSE, val |-> 4]
      [] s = "0.5" -> [err |-> FALSE, nan |-> FALSE, val |-> 1]
      [] s = "100" -> [err |-> FALSE, nan |-> FALSE, val |-> 200]
      [] OTHER     -> [err |-> TRUE,  nan |-> FALSE, val |-> 0]

\* Go's float comparison f <= 0: false for a NaN.
FloatLeqZero(f) == ~f.nan /\ f.val <= 0

\* The amount check of TransferFunds: err != nil || amountFloat <= 0.
AmountRejected(s) == ParseFloat(s).err \/ FloatLeqZero(ParseFloat(s))

\* stellar amount.Parse: a plain decimal only ("NaN" and "abc" are refused).
AmountParse(s) ==
    IF s \in {"0", "-5", "1", "2", "0.5", "100"}
    THEN [err |-> FALSE, val |-> ParseFloat(s).val]
    ELSE [err |-> TRUE, val |-> 0]

-----------------------------------------------------------------------------
(* Operations and envelopes (txnbuild).                                    *)

Asset(issuerStr) == [Code |-> "USDC", Issuer |-> issuerStr]

\* An operation whose SourceAccount is left unset carries "".
CreateAccountOp(dest, amt) ==
    [type |-> "CreateAccount", SourceAccount |-> "", Destination |-> dest,
     Amount |-> amt, Asset |-> Asset(NoStr)]
ChangeTrustOp(asset) ==
    [type |-> "ChangeTrust", SourceAccount |-> "", Destination |-> NoStr,
     Amount |-> "", Asset |-> asset]
PaymentOp(dest, amt, asset) ==
    [type |-> "Payment", SourceAccount |-> "", Destination |-> dest,
     Amount |-> amt, Asset |-> asset]

NoEnv == [source |-> "", seq |-> -1, ops |-> <<>>, fee |-> 0, timeout |-> 0,
          maxTime |-> 0, sigs |-> {}]

MinBaseFee == 100
TimeoutSeconds == 300

\* txnbuild validation of one operation (op.Validate()).
validateStellarPublicKey(s) == s.enc = "address"
validateStellarAsset(a) == validateStellarPublicKey(a.Issuer)
validateAmount(s) == ~AmountParse(s).err /\ AmountParse(s).val >= 0
Validate(op) ==
    CASE op.type = "CreateAccount" ->
            validateStellarPublicKey(op.Destination) /\ validateAmount(op.Amount)
      [] op.type = "ChangeTrust" -> validateStellarAsset(op.Asset)
      [] op.type = "Payment" ->
            /\ validateStellarPublicKey(op.Destination)
            /\ validateStellarAsset(op.Asset)
            /\ validateAmount(op.Amount)
      [] OTHER -> FALSE

\* The sequence number an envelope gets from the fetched account
\* (IncrementSequenceNum: true).
EnvelopeSeq(fetchedSeq, ops) == fetchedSeq + 1

\* txnbuild.NewTimeout(seconds): the upper time bound of an envelope built
\* at the given time.
NewTimeout(time, seconds) == time + seconds

\* txnbuild.NewTransaction with IncrementSequenceNum, MinBaseFee, NewTimeout(300),
\* called at the given time.
NewTransaction(sourceAddr, fetchedSeq, ops, time) ==
    IF \E i \in 1..Len(ops) : ~Validate(ops[i])
    THEN [err |-> TRUE, env |-> NoEnv]
    ELSE [err |-> FALSE,
          env |-> [source |-> sourceAddr, seq |-> EnvelopeSeq(fetchedSeq, ops),
                   ops |-> ops, fee |-> MinBaseFee * Len(ops),
                   timeout |-> TimeoutSeconds,
                   maxTime |-> NewTimeout(time, TimeoutSeconds), sigs |-> {}]]

\* tx.Sign(passphrase, keys...): one signature per key, bound to the passphrase.
Sign(env, passphrase, keys) ==
    [env EXCEPT !.sigs = env.sigs \cup {[key |-> k, net |-> passphrase] : k \in keys}]

\* The passphrase selection of CreateWallet and TransferFunds.
NetworkPassphrase(network) ==
    IF network = "testnet" THEN "Test SDF Network" ELSE "Public Global Stellar Network"

\* The two clients of the SDK, named by the endpoint they talk to, and the
\* passphrase of the network the endpoint serves.
DefaultTestNetClient   == "https://horizon-testnet.stellar.org/"
DefaultPublicNetClient == "https://horizon.stellar.org/"
ServedNetwork(client) ==
    IF client = DefaultTestNetClient THEN "Test SDF Network"
    ELSE "Public Global Stellar Network"

\* Faulty variant of HorizonClient: the network name compared without regard
\* to the case of its first letter.
HorizonClient_AnyCase(network) ==
    IF network \in {"testnet", "Testnet"} THEN DefaultTestNetClient
    ELSE DefaultPublicNetClient

\* The client selection of main.
HorizonClient(network) ==
    IF network = "testnet" THEN DefaultTestNetClient ELSE DefaultPublicNetClient

-----------------------------------------------------------------------------
(* The remote ledger: accounts, and the rules by which the node validates  *)
(* and applies a transaction.  An account holds its sequence number, its    *)
(* native balance and, when it has a trustline to the asset, a balance of   *)
(* the designated asset.                                                    *)

NoAccount == [exists |-> FALSE, seq |-> 0, trust |-> FALSE, usdc |-> 0, xlm |-> 0]

InitLedger ==
    [a \in Addresses |->
        CASE a = Master     -> [exists |-> TRUE, seq |-> 10, trust |-> TRUE, usdc |-> 400, xlm |-> 40]
          [] a = LedgerIssuer -> [exists |-> TRUE, seq |-> 20, trust |-> FALSE, usdc |-> 0, xlm |-> 40]
          [] a = User1      -> [exists |-> TRUE, seq |-> 30, trust |-> TRUE, usdc |-> 4, xlm |-> 40]
          [] a = User2      -> [exists |-> TRUE, seq |-> 40, trust |-> TRUE, usdc |-> 0, xlm |-> 40]
          [] OTHER          -> NoAccount]

\* An operation with no source account of its own runs on the transaction's.
OpSource(env, op) == IF op.SourceAccount = "" THEN env.source ELSE op.SourceAccount

OpOk(L)     == [ok |-> TRUE, code |-> "op_success", ledger |-> L]
OpFail(L, c) == [ok |-> FALSE, code |-> c, ledger |-> L]

ApplyCreateAccount(L, src, op) ==
    LET dest == op.Destination.of
        amt  == AmountParse(op.Amount).val
    IN  IF L[dest].exists THEN OpFail(L, "op_already_exists")
        ELSE IF L[src].xlm < amt THEN OpFail(L, "op_underfunded")
        ELSE OpOk([L EXCEPT ![src].xlm = @ - amt,
                            ![dest] = [exists |-> TRUE, seq |-> 0, trust |-> FALSE,
                                       usdc |-> 0, xlm |-> amt]])

ApplyChangeTrust(L, src, op) ==
    IF op.Asset.Issuer.of = src THEN OpFail(L, "op_self_not_allowed")
    ELSE OpOk([L EXCEPT ![src].trust = TRUE])

ApplyPayment(L, src, op) ==
    LET dest   == op.Destination.of
        issuer == op.Asset.Issuer.of
        amt    == AmountParse(op.Amount).val
    IN  IF amt <= 0 THEN OpFail(L, "op_malformed")
        ELSE IF ~L[dest].exists THEN OpFail(L, "op_no_destination")
        ELSE IF src # issuer /\ ~L[src].trust THEN OpFail(L, "op_src_no_trust")
        ELSE IF src # issuer /\ L[src].usdc < amt THEN OpFail(L, "op_underfunded")
        ELSE IF dest # issuer /\ ~L[dest].trust THEN OpFail(L, "op_no_trust")
        ELSE LET L1 == IF src = issuer THEN L ELSE [L EXCEPT ![src].usdc = @ - amt]
                 L2 == IF dest = issuer THEN L1 ELSE [L1 EXCEPT ![dest].usdc = @ + amt]
             IN  OpOk(L2)

ApplyOp(L, src, op) ==
    CASE op.type = "CreateAccount" -> ApplyCreateAccount(L, src, op)
      [] op.type = "ChangeTrust"   -> ApplyChangeTrust(L, src, op)
      [] op.type = "Payment"       -> ApplyPayment(L, src, op)
      [] OTHER                     -> OpFail(L, "op_not_supported")

\* The operations of one transaction, applied in order; the first failure
\* stops the application.
RECURSIVE ApplyOps(_, _, _, _)
ApplyOps(L, env, ops, i) ==
    IF i > Len(ops) THEN OpOk(L)
    ELSE LET r == ApplyOp(L, OpSource(env, ops[i]), ops[i])
         IN  IF r.ok THEN ApplyOps(r.ledger, env, ops, i + 1) ELSE OpFail(L, r.code)

\* The accounts whose signature the envelope needs, and the keys that signed.
RequiredSigners(env) == {env.source} \cup {OpSource(env, env.ops[i]) : i \in 1..Len(env.ops)}
SigningKeys(env) == {s.key : s \in env.sigs}

\* An envelope is too late once the ledger's close time is past its upper
\* time bound (0 is no bound).
TooLate(env, closeTime) == env.maxTime # 0 /\ closeTime > env.maxTime

\* The node's verdict on an envelope submitted at closeTime and the ledger
\* after it.  A transaction is all-or-nothing: when an operation fails only
\* the sequence number of the source is consumed.
ProcessTx(L, env, nodeNet, closeTime) ==
    LET src == env.source
        rej(c) == [code |-> c, applied |-> FALSE, ledger |-> L]
    IN  IF TooLate(env, closeTime) THEN rej("tx_too_late")
        ELSE IF ~L[src].exists THEN rej("tx_no_account")
        ELSE IF env.seq # L[src].seq + 1 THEN rej("tx_bad_seq")
        ELSE IF \E s \in env.sigs : s.net # nodeNet THEN rej("tx_bad_auth")
        ELSE IF ~(RequiredSigners(env) \subseteq SigningKeys(env)) THEN rej("tx_bad_auth")
        ELSE IF ~(SigningKeys(env) \subseteq RequiredSigners(env)) THEN rej("tx_bad_auth_extra")
        ELSE LET L1 == [L EXCEPT ![src].seq = env.seq]
                 r  == ApplyOps(L1, env, env.ops, 1)
             IN  IF r.ok THEN [code |-> "tx_success", applied |-> TRUE, ledger |-> r.ledger]
                 ELSE [code |-> "tx_failed", applied |-> FALSE, ledger |-> L1]

\* Horizon's account resource: the trustline balances, then the native one.
NativeType == "native"
CreditType == "credit_alphanum4"
HorizonBalances(acct) ==
    (IF acct.trust
     THEN <<[AssetType |-> CreditType, AssetCode |-> "USDC", Issuer |-> LedgerIssuer,
             Balance |-> acct.usdc]>>
     ELSE <<>>)
    \o <<[AssetType |-> NativeType, AssetCode |-> "", Issuer |-> "", Balance |-> acct.xlm]>>

-----------------------------------------------------------------------------
(* Errors of the horizonclient calls.  horizon = TRUE is a                  *)
(* *horizonclient.Error (the node answered with a problem document);        *)
(* horizon = FALSE is any other error (the node could not be reached).      *)

NoError == [isErr |-> FALSE, horizon |-> FALSE, status |-> 200, detail |-> ""]
HorizonError(st, d) == [isErr |-> TRUE, horizon |-> TRUE, status |-> st, detail |-> d]
TransportError == [isErr |-> TRUE, horizon |-> FALSE, status |-> 0, detail |-> "connection failed"]

StatusNotFound == 404

\* err.Error()
ErrorText(e) == IF e.horizon THEN "horizon error: " \o e.detail ELSE e.detail

\* How the node may answer an AccountDetail call.
FetchAnswers == {"node", "transport", "horizon5xx"}

\* HorizonClient.AccountDetail(AccountRequest{AccountID: addr})
AccountDetail(L, addr, ans) ==
    CASE ans = "transport"  -> [err |-> TransportError, Sequence |-> 0, Balances |-> <<>>]
      [] ans = "horizon5xx" -> [err |-> HorizonError(503, "Service Unavailable"),
                                Sequence |-> 0, Balances |-> <<>>]
      [] OTHER ->
            IF L[addr].exists
            THEN [err |-> NoError, Sequence |-> L[addr].seq,
                  Balances |-> HorizonBalances(L[addr])]
            ELSE [err |-> HorizonError(StatusNotFound, "Resource Missing"),
                  Sequence |-> 0, Balances |-> <<>>]

\* How a submission may go: the node processes the envelope and answers
\* ("node"); the envelope never reaches the node ("transport"); the node is
\* up but refuses to take it ("horizon5xx"); the node processes it but the
\* answer is lost on the way ("lost") or replaced by a gateway timeout
\* ("timeout").
SubmitAnswers == {"node", "transport", "horizon5xx", "lost", "timeout"}

TxHash(env) == <<env.source, env.seq>>
NoHash == <<"", -1>>

\* HorizonClient.SubmitTransaction(tx) at closeTime: the error (if any) and
\* the hash the client gets, the ledger afterwards, and the node's verdict
\* on the envelope ("" when the envelope never reached the node).
SubmitTransaction(L, env, ans, nodeNet, closeTime) ==
    LET r == ProcessTx(L, env, nodeNet, closeTime)
    IN  CASE ans = "transport"  -> [err |-> TransportError, Hash |-> NoHash, ledger |-> L,
                                    verdict |-> ""]
          [] ans = "horizon5xx" -> [err |-> HorizonError(503, "Service Unavailable"),
                                    Hash |-> NoHash, ledger |-> L, verdict |-> ""]
          [] ans = "lost"       -> [err |-> TransportError, Hash |-> NoHash,
                                    ledger |-> r.ledger, verdict |-> r.code]
          [] ans = "timeout"    -> [err |-> HorizonError(504, "Timeout"),
                                    Hash |-> NoHash, ledger |-> r.ledger, verdict |-> r.code]
          [] OTHER ->
                IF r.code = "tx_success"
                THEN [err |-> NoError, Hash |-> TxHash(env), ledger |-> r.ledger,
                      verdict |-> r.code]
                ELSE [err |-> HorizonError(400, r.code), Hash |-> NoHash,
                      ledger |-> r.ledger, verdict |-> r.code]

-----------------------------------------------------------------------------
(* The records of a request in flight.                                     *)

NoReq == [FromSecretKey |-> NoStr, ToPublicKey |-> NoStr, Amount |-> "", PublicKey |-> NoStr]
NoKeypair == [err |-> TRUE, full |-> FALSE, addr |-> ""]

\* What a service method returns: (response, nil) or (nil, error); or the
\* error a controller answers with when it does not call the service.
NoResult == [status |-> "none", msg |-> "", detail |-> "", PublicKey |-> "",
             SecretKey |-> NoStr, Exists |-> FALSE, Balances |-> <<>>,
             SequenceNumber |-> 0, Hash |-> NoHash]
Err(m, d) == [NoResult EXCEPT !.status = "err", !.msg = m, !.detail = d]

\* A request: its inputs and locals (req, kp, signer, snapSeq, env), its
\* position (pc), its result, and a record of its network calls: how many
\* (fetches, submits), how the node answered the last one (answer, lastErr),
\* the state of the ledger its account fetch saw (at) and the time of the
\* fetch (builtAt), and, for a submission, whether the fetched sequence
\* number was still the account's (fresh), whether another request was
\* waiting to submit an envelope with the same source and sequence number
\* (overlap), the node's verdict on the envelope (verdict) and what the
\* submission took from the source account's asset balance (debited).
NoCall == [kind |-> "none", pc |-> "idle", req |-> NoReq, kp |-> "",
           signer |-> NoKeypair, snapSeq |-> -1, env |-> NoEnv, fetches |-> 0,
           submits |-> 0, answer |-> "", lastErr |-> NoError, fresh |-> FALSE,
           overlap |-> FALSE, at |-> -1, builtAt |-> -1, verdict |-> "",
           debited |-> 0, result |-> NoResult, http |-> 0]

\* c.ShouldBindJSON(&req) with binding:"required" on the three fields.
ShouldBindJSON(req) ==
    req.FromSecretKey # NoStr /\ req.ToPublicKey # NoStr /\ req.Amount # ""

\* The answer of the controller to a body that does not bind.
BindFailure == Err("invalid request body: ", "binding")

\* The controllers: the HTTP status a service result is answered with.
StatusOK == 200
StatusBadRequest == 400
StatusInternalServerError == 500

ControllerCreateWallet(res) ==
    IF res.status = "err" THEN StatusInternalServerError ELSE StatusOK

ControllerGetWalletDetails(res) ==
    IF res.status = "err"
    THEN IF res.msg = "invalid public key format" /\ res.detail = ""
         THEN StatusBadRequest ELSE StatusInternalServerError
    ELSE StatusOK

ControllerTransferFunds(res) ==
    IF res.status = "err" /\ res.msg = "invalid request body: " THEN StatusBadRequest
    ELSE IF res.status = "err"
    THEN IF res.detail = "" /\ res.msg \in {"invalid sender secret key",
                                             "invalid recipient public key",
                                             "invalid amount: must be a positive number"}
         THEN StatusBadRequest ELSE StatusInternalServerError
    ELSE StatusOK

Controller(kind, res) ==
    CASE kind = "create"   -> ControllerCreateWallet(res)
      [] kind = "details"  -> ControllerGetWalletDetails(res)
      [] OTHER             -> ControllerTransferFunds(res)

\* The request returns res to its controller, which answers the client.
Finish(call, res) ==
    [call EXCEPT !.pc = "done", !.result = res, !.http = Controller(call.kind, res)]

\* A new request takes the first free slot.
CanStart(c) ==
    /\ calls[c].kind = "none"
    /\ \A d \in 1..(c - 1) : calls[d].kind # "none"
    /\ started < MaxCalls

Begin(kind, req) == [NoCall EXCEPT !.kind = kind, !.req = req]

\* The mapping of a submission error shared by CreateWallet and TransferFunds.
SubmitError(e) ==
    IF e.horizon THEN Err("transaction failed: ", e.detail)
    ELSE Err("failed to submit transaction: ", ErrorText(e))

\* The number of transactions the ledger has taken so far: every one
\* consumes one sequence number of its source account.
RECURSIVE SumSeq(_, _)
SumSeq(L, S) ==
    IF S = {} THEN 0
    ELSE LET a == CHOOSE x \in S : TRUE IN L[a].seq + SumSeq(L, S \ {a})
LedgerVersion(L) == SumSeq(L, Addresses) - SumSeq(InitLedger, Addresses)

\* Faulty variant of Fetching: a fetch that failed is made once more.
Fetching_Retry(c, ans, acct) ==
    [calls[c] EXCEPT !.fetches = IF acct.err.isErr THEN @ + 2 ELSE @ + 1,
                     !.answer = ans, !.lastErr = acct.err,
                     !.at = LedgerVersion(ledger), !.builtAt = now]

\* The request's record of an account fetch.  (The actions bind the answer of
\* the node as the member of a one-element set, so that it is one value.)
Fetching(c, ans, acct) ==
    [calls[c] EXCEPT !.fetches = @ + 1, !.answer = ans, !.lastErr = acct.err,
                     !.at = LedgerVersion(ledger), !.builtAt = now]

\* The request's record of a submission made in the current ledger.
Submitting(c, ans) ==
    [calls[c] EXCEPT
        !.submits = @ + 1,
        !.answer  = ans,
        !.fresh   = (ledger[calls[c].env.source].seq = calls[c].snapSeq),
        !.overlap = \E d \in Slots \ {c} :
                        /\ calls[d].pc = "submit"
                        /\ calls[d].env.source = calls[c].env.source
                        /\ calls[d].env.seq = calls[c].env.seq]

\* The same, with the outcome r of the submission.
Submitted(c, ans, r) ==
    [Submitting(c, ans) EXCEPT
        !.lastErr = r.err,
        !.verdict = r.verdict,
        !.debited = ledger[calls[c].env.source].usdc - r.ledger[calls[c].env.source].usdc]

-----------------------------------------------------------------------------
(* The single-file program: createWalletHandler, getWalletDetailsHandler   *)
(* and transferFundsHandler, which answer the client themselves.  A        *)
(* handler is run beside each request of the service, on the same request  *)
(* and the same answers of the node.  It keeps its own locals (req, kp,    *)
(* signer, env) and position (pc), the network calls it has made in order  *)
(* (log), and the response it has written (http, body).                    *)

NoHandler == [pc |-> "idle", req |-> NoReq, kp |-> "", signer |-> NoKeypair,
              env |-> NoEnv, log |-> <<>>, http |-> 0, body |-> NoResult]

\* c.JSON(status, body); return
Respond(h, status, body) == [h EXCEPT !.pc = "done", !.http = status, !.body = body]

\* The handler has called the node.
Called(h, call) == [h EXCEPT !.log = Append(@, call)]

\* The passphrase selection of createWalletHandler and transferFundsHandler.
HandlerPassphrase(network) ==
    IF network = "testnet" THEN "Test SDF Network" ELSE "Public Global Stellar Network"

\* The mapping of a submission error in both handlers.
HandlerSubmitError(e) ==
    IF e.horizon THEN Err("Transaction failed", e.detail)
    ELSE Err("Failed to submit transaction: ", ErrorText(e))

\* createWalletHandler, lines 100-115: generate the keypair, parse the master secret.
createWalletHandlerStart(entropy, kp, cfg) ==
    IF ~entropy
    THEN Respond(NoHandler, StatusInternalServerError, Err("Failed to generate keypair", ""))
    ELSE IF Parse(cfg.MasterSecret).err
    THEN Respond([NoHandler EXCEPT !.kp = kp], StatusInternalServerError,
                 Err("Invalid master secret key", ""))
    ELSE [NoHandler EXCEPT !.kp = kp, !.signer = Parse(cfg.MasterSecret), !.pc = "fetch"]

\* createWalletHandler, lines 117-137: the three operations.
createWalletHandlerOps(publicKey, asset) ==
    << CreateAccountOp(AddrStr(publicKey), "0.5"),
       ChangeTrustOp(asset),
       PaymentOp(AddrStr(publicKey), "100", asset) >>

\* createWalletHandler, lines 139-179: fetch the master account (answer
\* acct), build and sign the envelope.
createWalletHandlerFetch(h, acct, cfg, time) ==
    LET g  == Called(h, <<"AccountDetail", h.signer.addr>>)
        tx == NewTransaction(h.signer.addr, acct.Sequence,
                             createWalletHandlerOps(h.kp, Asset(cfg.Issuer)), time)
    IN  IF acct.err.isErr
        THEN Respond(g, StatusInternalServerError,
                     Err("Failed to fetch master account details", ""))
        ELSE IF tx.err
        THEN Respond(g, StatusInternalServerError,
                     Err("Failed to build transaction: ", "validation"))
        ELSE IF ~h.signer.full
        THEN Respond(g, StatusInternalServerError, Err("Master key is not a full keypair", ""))
        ELSE [g EXCEPT !.pc = "submit",
                       !.env = Sign(tx.env, HandlerPassphrase(cfg.Network),
                                    {h.signer.addr, h.kp})]

\* createWalletHandler, lines 181-198: submit (outcome r), answer.
createWalletHandlerSubmit(h, r) ==
    LET g == Called(h, <<"SubmitTransaction", h.env>>)
    IN  IF r.err.isErr
        THEN Respond(g, StatusInternalServerError, HandlerSubmitError(r.err))
        ELSE Respond(g, StatusOK, [NoResult EXCEPT !.status = "ok",
                                      !.PublicKey = h.kp,
                                      !.SecretKey = Seed(h.kp),
                                      !.Hash = r.Hash])

\* getWalletDetailsHandler, lines 202-207: validate the address format.
getWalletDetailsHandlerStart(pk) ==
    LET h == [NoHandler EXCEPT !.req = [NoReq EXCEPT !.PublicKey = pk]]
    IN  IF ParseAddress(pk).err
        THEN Respond(h, StatusBadRequest, Err("Invalid public key format", ""))
        ELSE [h EXCEPT !.pc = "fetch"]

\* Faulty variant of getWalletDetailsHandlerResponse: the status code of the
\* node's problem not looked at.
getWalletDetailsHandlerResponse_AnyHorizonError(h, acct) ==
    LET pk == h.req.PublicKey.of
    IN  IF acct.err.isErr
        THEN IF acct.err.horizon
             THEN Respond(h, StatusOK,
                          [NoResult EXCEPT !.status = "ok", !.PublicKey = pk, !.Exists = FALSE,
                                           !.Balances = <<>>, !.SequenceNumber = 0])
             ELSE Respond(h, StatusInternalServerError,
                          Err("Failed to fetch wallet details: ", ErrorText(acct.err)))
        ELSE Respond(h, StatusOK,
                     [NoResult EXCEPT !.status = "ok", !.PublicKey = pk, !.Exists = TRUE,
                         !.Balances = acct.Balances, !.SequenceNumber = acct.Sequence])

\* getWalletDetailsHandler, lines 211-257: the response for the answer acct
\* of the account fetch.
getWalletDetailsHandlerResponse(h, acct) ==
    LET pk == h.req.PublicKey.of
    IN  IF acct.err.isErr
        THEN IF acct.err.horizon /\ acct.err.status = StatusNotFound
             THEN Respond(h, StatusOK,
                          [NoResult EXCEPT !.status = "ok", !.PublicKey = pk, !.Exists = FALSE,
                                           !.Balances = <<>>, !.SequenceNumber = 0])
             ELSE Respond(h, StatusInternalServerError,
                          Err("Failed to fetch wallet details: ", ErrorText(acct.err)))
        ELSE Respond(h, StatusOK,
                     [NoResult EXCEPT !.status = "ok", !.PublicKey = pk, !.Exists = TRUE,
                         !.Balances = [i \in 1..Len(acct.Balances) |->
                                         [AssetType |-> acct.Balances[i].AssetType,
                                          AssetCode |-> acct.Balances[i].AssetCode,
                                          Issuer    |-> acct.Balances[i].Issuer,
                                          Balance   |-> acct.Balances[i].Balance]],
                         !.SequenceNumber = acct.Sequence])

\* getWalletDetailsHandler, lines 209-257: fetch the account and answer.
getWalletDetailsHandlerFetch(h, acct) ==
    getWalletDetailsHandlerResponse(Called(h, <<"AccountDetail", h.req.PublicKey.of>>), acct)

\* transferFundsHandler, lines 261-285: bind the body, check the three inputs.
transferFundsHandlerStart(req) ==
    LET h == [NoHandler EXCEPT !.req = req]
    IN  IF ~ShouldBindJSON(req)
        THEN Respond(h, StatusBadRequest, Err("Invalid request body: ", "binding"))
        ELSE IF ParseFull(req.FromSecretKey).err
        THEN Respond(h, StatusBadRequest, Err("Invalid sender secret key", ""))
        ELSE IF ParseAddress(req.ToPublicKey).err
        THEN Respond(h, StatusBadRequest, Err("Invalid recipient public key", ""))
        ELSE IF AmountRejected(req.Amount)
        THEN Respond(h, StatusBadRequest, Err("Invalid amount: must be a positive number", ""))
        ELSE [h EXCEPT !.signer = ParseFull(req.FromSecretKey), !.pc = "fetch"]

\* transferFundsHandler, lines 287-329: fetch the sender account (answer
\* acct), build and sign the envelope.
transferFundsHandlerFetch(h, acct, cfg, time) ==
    LET g  == Called(h, <<"AccountDetail", h.signer.addr>>)
        tx == NewTransaction(h.signer.addr, acct.Sequence,
                             << PaymentOp(h.req.ToPublicKey, h.req.Amount, Asset(cfg.Issuer)) >>,
                             time)
    IN  IF acct.err.isErr
        THEN Respond(g, StatusInternalServerError,
                     Err("Failed to fetch sender account details: ", ErrorText(acct.err)))
        ELSE IF tx.err
        THEN Respond(g, StatusInternalServerError,
                     Err("Failed to build transaction: ", "validation"))
        ELSE [g EXCEPT !.pc = "submit",
                       !.env = Sign(tx.env, HandlerPassphrase(cfg.Network), {h.signer.addr})]

\* transferFundsHandler, lines 331-347: submit (outcome r), answer.
transferFundsHandlerSubmit(h, r) ==
    LET g == Called(h, <<"SubmitTransaction", h.env>>)
    IN  IF r.err.isErr
        THEN Respond(g, StatusInternalServerError, HandlerSubmitError(r.err))
        ELSE Respond(g, StatusOK, [NoResult EXCEPT !.status = "ok", !.Hash = r.Hash])

-----------------------------------------------------------------------------
(* WalletService.CreateWallet                                              *)

ReserveAmount == "0.5"
FundingAmount == "100"

\* The three operations of the account-creation envelope.
CreateWalletOps(publicKey, asset) ==
    << CreateAccountOp(AddrStr(publicKey), ReserveAmount),
       ChangeTrustOp(asset),
       PaymentOp(AddrStr(publicKey), FundingAmount, asset) >>

\* Faulty variant of CreateWalletFailure: the generated keys returned beside the error.
CreateWalletFailure_Leaky(m, d, publicKey) ==
    [Err(m, d) EXCEPT !.PublicKey = publicKey, !.SecretKey = Seed(publicKey)]

\* What CreateWallet returns when a step fails: (nil, error).
CreateWalletFailure(m, d, publicKey) == Err(m, d)

\* Lines 57-68: generate the keypair, parse the master secret.
CreateWalletStart(c) ==
    /\ CanStart(c)
    /\ started' = started + 1
    /\ \E entropy \in BOOLEAN :
         LET call   == Begin("create", NoReq)
             kp     == Random(nkeys + 1)
             master == Parse(config.MasterSecret)
         IN  /\ handlers' = [handlers EXCEPT ![c] =
                                 createWalletHandlerStart(entropy, kp, config)]
             /\ IF ~entropy
                THEN /\ nkeys' = nkeys
                     /\ calls' = [calls EXCEPT ![c] =
                           Finish(call, CreateWalletFailure("failed to generate keypair: ", "entropy", ""))]
                ELSE /\ nkeys' = nkeys + 1
                     /\ calls' = [calls EXCEPT ![c] =
                           IF master.err
                           THEN Finish([call EXCEPT !.kp = kp],
                                       CreateWalletFailure("invalid master secret key: ", "parse", kp))
                           ELSE [call EXCEPT !.kp = kp, !.signer = master, !.pc = "fetch"]]
    /\ UNCHANGED <<config, ledger, now>>

\* Lines 89-122: fetch the master account, build and sign the envelope.
CreateWalletFetch(c) ==
    /\ calls[c].kind = "create" /\ calls[c].pc = "fetch"
    /\ \E ans \in FetchAnswers :
       /\ \E acct \in {AccountDetail(ledger, calls[c].signer.addr, ans)} :
         LET call == Fetching(c, ans, acct)
             tx   == NewTransaction(call.signer.addr, acct.Sequence,
                                    CreateWalletOps(call.kp, Asset(config.Issuer)), now)
         IN  calls' = [calls EXCEPT ![c] =
                IF acct.err.isErr
                THEN Finish(call, CreateWalletFailure("failed to fetch master account details: ",
                                                      ErrorText(acct.err), call.kp))
                ELSE IF tx.err
                THEN Finish([call EXCEPT !.snapSeq = acct.Sequence],
                            CreateWalletFailure("failed to build transaction: ", "validation", call.kp))
                ELSE IF ~call.signer.full
                THEN Finish([call EXCEPT !.snapSeq = acct.Sequence],
                            CreateWalletFailure("master key is not a full keypair", "", call.kp))
                ELSE [call EXCEPT !.snapSeq = acct.Sequence, !.pc = "submit",
                        !.env = Sign(tx.env, NetworkPassphrase(config.Network),
                                     {call.signer.addr, call.kp})]]
       /\ \E acct \in {AccountDetail(ledger, handlers[c].signer.addr, ans)} :
            handlers' = [handlers EXCEPT ![c] =
                            createWalletHandlerFetch(handlers[c], acct, config, now)]
    /\ UNCHANGED <<config, ledger, started, nkeys, now>>

\* Lines 125-130: a failed submission ends the request with an error.
CreateWalletSubmitFailure(call, e) ==
    Finish(call, CreateWalletFailure(SubmitError(e).msg, SubmitError(e).detail, call.kp))

\* Lines 124-137: submit, map the outcome.
CreateWalletSubmit(c) ==
    /\ calls[c].kind = "create" /\ calls[c].pc = "submit"
    /\ \E ans \in SubmitAnswers :
       /\ \E r \in {SubmitTransaction(ledger, calls[c].env, ans,
                               ServedNetwork(config.HorizonClient), now)} :
         LET call == Submitted(c, ans, r)
         IN  /\ ledger' = r.ledger
             /\ calls' = [calls EXCEPT ![c] =
                   IF r.err.isErr
                   THEN CreateWalletSubmitFailure(call, r.err)
                   ELSE Finish(call, [NoResult EXCEPT !.status = "ok",
                                         !.PublicKey = call.kp,
                                         !.SecretKey = Seed(call.kp),
                                         !.Hash = r.Hash])]
       /\ \E r \in {SubmitTransaction(ledger, handlers[c].env, ans,
                                       ServedNetwork(config.HorizonClient), now)} :
            handlers' = [handlers EXCEPT ![c] = createWalletHandlerSubmit(handlers[c], r)]
    /\ UNCHANGED <<config, started, nkeys, now>>

-----------------------------------------------------------------------------
(* WalletService.GetWalletDetails                                          *)

\* The addresses a client may ask about.
DetailsInputs ==
    {AddrStr(User1), AddrStr(Absent), Garbage} \cup {AddrStr(Random(i)) : i \in 1..nkeys}

\* Lines 164-182: the copy of account.Balances into the response.
CopyBalances(bs) ==
    [i \in 1..Len(bs) |-> [AssetType |-> bs[i].AssetType, AssetCode |-> bs[i].AssetCode,
                           Issuer |-> bs[i].Issuer, Balance |-> bs[i].Balance]]

\* Faulty variant of DetailsFetchFailure: the status code of the problem not looked at.
DetailsFetchFailure_AnyHorizonError(e, publicKey) ==
    IF e.horizon
    THEN [NoResult EXCEPT !.status = "ok", !.PublicKey = publicKey, !.Exists = FALSE,
                          !.Balances = <<>>, !.SequenceNumber = 0]
    ELSE Err("failed to fetch wallet details: ", ErrorText(e))

\* Lines 147-162: the mapping of a failed account fetch.
DetailsFetchFailure(e, publicKey) ==
    IF e.horizon /\ e.status = StatusNotFound
    THEN [NoResult EXCEPT !.status = "ok", !.PublicKey = publicKey, !.Exists = FALSE,
                          !.Balances = <<>>, !.SequenceNumber = 0]
    ELSE Err("failed to fetch wallet details: ", ErrorText(e))

\* Faulty variant of DetailsResponse: the response numbered by the requests
\* the process has served.
DetailsResponse_Counted(acct, publicKey) ==
    IF acct.err.isErr
    THEN DetailsFetchFailure(acct.err, publicKey)
    ELSE [NoResult EXCEPT !.status = "ok", !.PublicKey = publicKey, !.Exists = TRUE,
                          !.Balances = CopyBalances(acct.Balances),
                          !.SequenceNumber = acct.Sequence + started]

\* Lines 146-189: the result for the answer acct of the account fetch.
DetailsResponse(acct, publicKey) ==
    IF acct.err.isErr
    THEN DetailsFetchFailure(acct.err, publicKey)
    ELSE [NoResult EXCEPT !.status = "ok", !.PublicKey = publicKey, !.Exists = TRUE,
                          !.Balances = CopyBalances(acct.Balances),
                          !.SequenceNumber = acct.Sequence]

\* Lines 141-143: validate the address format.
GetWalletDetailsStart(c) ==
    /\ CanStart(c)
    /\ started' = started + 1
    /\ \E pk \in DetailsInputs :
         LET call == Begin("details", [NoReq EXCEPT !.PublicKey = pk])
         IN  /\ calls' = [calls EXCEPT ![c] =
                   IF ParseAddress(pk).err
                   THEN Finish(call, Err("invalid public key format", ""))
                   ELSE [call EXCEPT !.pc = "fetch"]]
             /\ handlers' = [handlers EXCEPT ![c] = getWalletDetailsHandlerStart(pk)]
    /\ UNCHANGED <<config, ledger, nkeys, now>>

\* Lines 145-189: fetch the account and shape the response.
GetWalletDetailsFetch(c) ==
    /\ calls[c].kind = "details" /\ calls[c].pc = "fetch"
    /\ \E ans \in FetchAnswers :
       /\ \E acct \in {AccountDetail(ledger, calls[c].req.PublicKey.of, ans)} :
         LET pk   == calls[c].req.PublicKey.of
             call == Fetching(c, ans, acct)
         IN  calls' = [calls EXCEPT ![c] =
                Finish([call EXCEPT !.snapSeq = IF acct.err.isErr THEN @ ELSE acct.Sequence],
                       DetailsResponse(acct, pk))]
       /\ \E acct \in {AccountDetail(ledger, handlers[c].req.PublicKey.of, ans)} :
            handlers' = [handlers EXCEPT ![c] =
                            getWalletDetailsHandlerFetch(handlers[c], acct)]
    /\ UNCHANGED <<config, ledger, started, nkeys, now>>

-----------------------------------------------------------------------------
(* WalletService.TransferFunds                                             *)

SenderInputs    == {Seed(User1), Seed(LedgerIssuer), Seed(Master), Seed(Absent), Garbage}
RecipientInputs == {AddrStr(User1), AddrStr(User2), AddrStr(Absent), AddrStr(LedgerIssuer), Garbage}
AmountInputs    == {"0", "-5", "abc", "NaN", "1"}

\* Request bodies that do not bind: NoStr and "" are the values of a field
\* that is missing or empty.  A body that is not JSON leaves all three so.
Body(from, to, amount) ==
    [FromSecretKey |-> from, ToPublicKey |-> to, Amount |-> amount, PublicKey |-> NoStr]
UnboundBodies ==
    { Body(NoStr, NoStr, ""),
      Body(Seed(User1), AddrStr(User2), ""),
      Body(Seed(User1), NoStr, "1"),
      Body(NoStr, AddrStr(User2), "1"),
      Body(Garbage, NoStr, "abc") }

\* Faulty variant of TransferValidation: the refused secret echoed in the error.
TransferValidation_EchoSecret(req) ==
    IF ParseFull(req.FromSecretKey).err
    THEN [Err("invalid sender secret key", "") EXCEPT !.SecretKey = req.FromSecretKey]
    ELSE IF ParseAddress(req.ToPublicKey).err THEN Err("invalid recipient public key", "")
    ELSE IF AmountRejected(req.Amount) THEN Err("invalid amount: must be a positive number", "")
    ELSE NoResult

\* Faulty variant of TransferValidation: the amount checked before the recipient.
TransferValidation_AmountFirst(req) ==
    IF ParseFull(req.FromSecretKey).err THEN Err("invalid sender secret key", "")
    ELSE IF AmountRejected(req.Amount) THEN Err("invalid amount: must be a positive number", "")
    ELSE IF ParseAddress(req.ToPublicKey).err THEN Err("invalid recipient public key", "")
    ELSE NoResult

\* Lines 194-205: the three input checks, in the order of the code.  The
\* result is the error of the first failing check, or NoResult.
TransferValidation(req) ==
    IF ParseFull(req.FromSecretKey).err THEN Err("invalid sender secret key", "")
    ELSE IF ParseAddress(req.ToPublicKey).err THEN Err("invalid recipient public key", "")
    ELSE IF AmountRejected(req.Amount) THEN Err("invalid amount: must be a positive number", "")
    ELSE NoResult

\* Lines 213-217: the single Payment of the designated asset.
TransferOps(req, asset) == << PaymentOp(req.ToPublicKey, req.Amount, asset) >>

\* The requests a client sends: the bodies that do not bind, and of those
\* that do, every combination of the three fields in which some input is
\* refused by the input checks; of the combinations that pass them, one sender and
\* recipient of each kind of account: a plain address, the sender itself, an
\* address never created, the issuer of the ledger's asset as recipient and
\* as sender, the master account, and a sender never created.
LivePairs ==
    { <<User1, User2>>, <<User1, User1>>, <<User1, Absent>>, <<User1, LedgerIssuer>>,
      <<LedgerIssuer, User1>>, <<Master, User2>>, <<Absent, User2>> }
TransferRequests ==
    UnboundBodies \cup
    { req \in [FromSecretKey : SenderInputs, ToPublicKey : RecipientInputs,
               Amount : AmountInputs, PublicKey : {NoStr}] :
        \/ ParseFull(req.FromSecretKey).err
        \/ ParseAddress(req.ToPublicKey).err
        \/ AmountRejected(req.Amount)
        \/ <<req.FromSecretKey.of, req.ToPublicKey.of>> \in LivePairs }

\* Controller lines 446-450 and service lines 194-205: bind the body, then
\* check the three inputs.
TransferFundsStart(c) ==
    /\ CanStart(c)
    /\ started' = started + 1
    /\ \E req \in TransferRequests :
         LET s    == req.FromSecretKey
             call == Begin("transfer", req)
             v    == TransferValidation(req)
         IN  /\ calls' = [calls EXCEPT ![c] =
                   IF ~ShouldBindJSON(req) THEN Finish(call, BindFailure)
                   ELSE IF v.status = "err" THEN Finish(call, v)
                   ELSE [call EXCEPT !.signer = ParseFull(s), !.pc = "fetch"]]
             /\ handlers' = [handlers EXCEPT ![c] = transferFundsHandlerStart(req)]
    /\ UNCHANGED <<config, ledger, nkeys, now>>

\* Faulty variant of TransferFetchFailure: an absent sender answered the way
\* GetWalletDetails answers an absent account.
TransferFetchFailure_LikeDetails(e) ==
    IF e.horizon /\ e.status = StatusNotFound
    THEN [NoResult EXCEPT !.status = "ok"]
    ELSE Err("failed to fetch sender account details: ", ErrorText(e))

\* Lines 209-211: every failure of the sender account fetch is an error.
TransferFetchFailure(e) == Err("failed to fetch sender account details: ", ErrorText(e))

\* Lines 207-242: fetch the sender account, build and sign the envelope.
TransferFundsFetch(c) ==
    /\ calls[c].kind = "transfer" /\ calls[c].pc = "fetch"
    /\ \E ans \in FetchAnswers :
       /\ \E acct \in {AccountDetail(ledger, calls[c].signer.addr, ans)} :
         LET call == Fetching(c, ans, acct)
             tx   == NewTransaction(call.signer.addr, acct.Sequence,
                                    TransferOps(call.req, Asset(config.Issuer)), now)
         IN  calls' = [calls EXCEPT ![c] =
                IF acct.err.isErr
                THEN Finish(call, TransferFetchFailure(acct.err))
                ELSE IF tx.err
                THEN Finish([call EXCEPT !.snapSeq = acct.Sequence],
                            Err("failed to build transaction: ", "validation"))
                ELSE [call EXCEPT !.snapSeq = acct.Sequence, !.pc = "submit",
                        !.env = Sign(tx.env, NetworkPassphrase(config.Network),
                                     {call.signer.addr})]]
       /\ \E acct \in {AccountDetail(ledger, handlers[c].signer.addr, ans)} :
            handlers' = [handlers EXCEPT ![c] =
                            transferFundsHandlerFetch(handlers[c], acct, config, now)]
    /\ UNCHANGED <<config, ledger, started, nkeys, now>>

\* Lines 245-250: a failed submission ends the request with an error.
TransferSubmitFailure(call, e) == Finish(call, SubmitError(e))

\* Lines 244-256: submit, map the outcome.
TransferFundsSubmit(c) ==
    /\ calls[c].kind = "transfer" /\ calls[c].pc = "submit"
    /\ \E ans \in SubmitAnswers :
       /\ \E r \in {SubmitTransaction(ledger, calls[c].env, ans,
                               ServedNetwork(config.HorizonClient), now)} :
         LET call == Submitted(c, ans, r)
         IN  /\ ledger' = r.ledger
             /\ calls' = [calls EXCEPT ![c] =
                   IF r.err.isErr
                   THEN TransferSubmitFailure(call, r.err)
                   ELSE Finish(call, [NoResult EXCEPT !.status = "ok", !.Hash = r.Hash])]
       /\ \E r \in {SubmitTransaction(ledger, handlers[c].env, ans,
                                       ServedNetwork(config.HorizonClient), now)} :
            handlers' = [handlers EXCEPT ![c] = transferFundsHandlerSubmit(handlers[c], r)]
    /\ UNCHANGED <<config, started, nkeys, now>>

-----------------------------------------------------------------------------
(* The process.                                                            *)

\* The response has been written; the slot serves the next request.
Return(c) ==
    /\ calls[c].pc = "done"
    /\ calls' = [calls EXCEPT ![c] = NoCall]
    /\ handlers' = [handlers EXCEPT ![c] = NoHandler]
    /\ UNCHANGED <<config, ledger, started, nkeys, now>>

\* The configurations main starts the process with: STELLAR_NETWORK may be
\* the name of the test network, unset, misspelled, or a name of the public
\* network; MASTER_SECRET_KEY may be a seed, an address or unparsable; the
\* asset's issuer is the constant of the code.
NetworkInputs == {"testnet", "", "Testnet", "public"}
MasterSecrets == {Seed(Master), AddrStr(Master), Garbage}
Config(network, masterSecret) ==
    [Network |-> network, MasterSecret |-> masterSecret, Issuer |-> USDCIssuer,
     HorizonClient |-> HorizonClient(network)]
Configs == {Config(nw, ms) : nw \in NetworkInputs, ms \in MasterSecrets}

Init ==
    /\ config \in Configs
    /\ ledger = InitLedger
    /\ calls = [c \in Slots |-> NoCall]
    /\ handlers = [c \in Slots |-> NoHandler]
    /\ started = 0
    /\ nkeys = 0
    /\ now = 0

\* The steps a request can take.  With the issuer main configures, the
\* validation of NewTransaction refuses the operations of every envelope, so
\* no request goes on to sign and submit (NoEnvelopeIsBuilt).
Next ==
    \E c \in Slots :
        \/ CreateWalletStart(c)
        \/ CreateWalletFetch(c)
        \/ GetWalletDetailsStart(c)
        \/ GetWalletDetailsFetch(c)
        \/ TransferFundsStart(c)
        \/ TransferFundsFetch(c)
        \/ Return(c)

Spec == Init /\ [][Next]_vars

\* Time passes: the clock advances by TickSeconds, MaxTicks times at most.
\* Only an envelope that has been built and not yet submitted observes the
\* time, so the clock is advanced while there is one.
TickSeconds == 200
MaxTicks == 2
Tick ==
    /\ now < MaxTicks * TickSeconds
    /\ \E c \in Slots : calls[c].pc = "submit"
    /\ now' = now + TickSeconds
    /\ UNCHANGED <<config, ledger, calls, handlers, started, nkeys>>

\* All the steps of the code, the submissions included.
AllSteps ==
    \/ Next
    \/ \E c \in Slots : CreateWalletSubmit(c) \/ TransferFundsSubmit(c)
    \/ Tick

SpecAllSteps == Init /\ [][AllSteps]_vars

\* No request holds an envelope or waits to submit one, and the ledger is
\* as it was: an invariant of SpecAllSteps, hence of Spec.
NoEnvelopeIsBuilt ==
    /\ \A c \in Slots : calls[c].env = NoEnv /\ calls[c].pc # "submit" /\ calls[c].submits = 0
    /\ ledger = InitLedger
    /\ now = 0

-----------------------------------------------------------------------------
(* Vocabulary of the claims.                                               *)

Done(c)     == calls[c].pc = "done"
IsCreate(c)   == calls[c].kind = "create"
IsDetails(c)  == calls[c].kind = "details"
IsTransfer(c) == calls[c].kind = "transfer"
IsWrite(c)    == IsCreate(c) \/ IsTransfer(c)
Succeeded(c) == Done(c) /\ calls[c].result.status = "ok"
Failed(c)    == Done(c) /\ calls[c].result.status = "err"

\* The error kinds of the spec, as the service reports them.
InvalidKey(res)     == res = Err("invalid sender secret key", "")
InvalidAddress(res) == res = Err("invalid recipient public key", "")
InvalidAmount(res)  == res = Err("invalid amount: must be a positive number", "")
Rejected(res)       == res.status = "err" /\ res.msg = "transaction failed: "
Unavailable(res)    == res.status = "err" /\ res.msg = "failed to submit transaction: "
BuildError(res)     == res.status = "err" /\ res.msg = "failed to build transaction: "
SequenceConflict(res) == Rejected(res) /\ res.detail = "tx_bad_seq"

\* What the spec calls "a positive decimal".
IsPositiveDecimal(s) == ~AmountParse(s).err /\ AmountParse(s).val > 0

Sender(c)    == calls[c].signer.addr
Recipient(c) == calls[c].req.ToPublicKey.of
Amount(c)    == AmountParse(calls[c].req.Amount).val
Usdc(L, a)   == L[a].usdc

\* The body of transfer request c binds: the service is called with it.
Bound(c) == IsTransfer(c) /\ ShouldBindJSON(calls[c].req)

\* The node answered the account fetch of request c with the account.
FetchedAccount(c) == calls[c].fetches = 1 /\ ~calls[c].lastErr.isErr

\* A transfer with everything a caller can provide: inputs the spec accepts,
\* and an account fetch the node answered with the sender account.
ServedTransfer(c) ==
    /\ IsTransfer(c) /\ FetchedAccount(c)
    /\ IsPositiveDecimal(calls[c].req.Amount)

\* The same for createWallet: the keypair generated, the master secret the
\* seed of the funding account, the funding account fetched.
ServedCreate(c) ==
    /\ IsCreate(c) /\ FetchedAccount(c)
    /\ calls[c].kp # "" /\ config.MasterSecret = Seed(Master)

\* A transfer of a positive amount from User1 to User2, both holding the
\* asset on the ledger.
PlainTransfer(c) ==
    ServedTransfer(c) /\ Sender(c) = User1 /\ Recipient(c) = User2

-----------------------------------------------------------------------------
(* C1 *)

\* c and d are transfers of one sender that both fetched the sender account,
\* reading the same sequence number, before either submitted; both have
\* returned.
StalePair(c, d) ==
    /\ c # d /\ ServedTransfer(c) /\ ServedTransfer(d)
    /\ Sender(c) = Sender(d) /\ calls[c].snapSeq = calls[d].snapSeq
    /\ Done(c) /\ Done(d)

\* C1: of two transfers of one sender that both fetched the sender account
\* before either submitted, exactly one succeeds and the other is Rejected
\* with a sequence-conflict detail.
C1_ExactlyOneSucceeds ==
    \A c, d \in Slots :
        StalePair(c, d) =>
            \/ Succeeded(c) /\ SequenceConflict(calls[d].result)
            \/ Succeeded(d) /\ SequenceConflict(calls[c].result)

\* No transfer succeeds: every one that passes the input checks and fetches
\* its sender account fails to build its envelope.
TransferNeverSucceeds ==
    \A c \in Slots :
        IsTransfer(c) =>
            /\ ~Succeeded(c)
            /\ (Done(c) /\ FetchedAccount(c)) => BuildError(calls[c].result)

-----------------------------------------------------------------------------
(* C2 *)

\* The account of new key k once the three effects of createWallet are on
\* the ledger: created with the reserve, trusting the asset, holding the
\* funded amount.
CreatedAccount ==
    [exists |-> TRUE, seq |-> 0, trust |-> TRUE,
     usdc |-> AmountParse(FundingAmount).val, xlm |-> AmountParse(ReserveAmount).val]
LedgerWith(k) == [ledger EXCEPT ![k] = CreatedAccount]

\* What getWalletDetails answers for address a, when the node answers, in
\* ledger L.
DetailsIn(L, a) == DetailsResponse(AccountDetail(L, a, "node"), a)

CreatedWalletShowsTwoEntries ==
    \A c \in Slots :
        (IsCreate(c) /\ calls[c].kp # "") =>
            LET r == DetailsIn(LedgerWith(calls[c].kp), calls[c].kp)
            IN  /\ r.status = "ok" /\ r.Exists
                /\ Len(r.Balances) = 2
                /\ r.Balances[1].AssetCode = "USDC"
                /\ r.Balances[1].Balance = AmountParse(FundingAmount).val
                /\ r.Balances[2].AssetType = NativeType

\* No createWallet call ever succeeds: every one that fetches the funding
\* account fails to build its envelope.
CreateWalletNeverSucceeds ==
    \A c \in Slots :
        IsCreate(c) =>
            /\ ~Succeeded(c)
            /\ (Done(c) /\ FetchedAccount(c)) => BuildError(calls[c].result)

-----------------------------------------------------------------------------
(* C3 *)

\* The operations createWallet hands to NewTransaction for request c, and
\* the account each runs on when the envelope's source is the funding account.
OpsOfCreate(c) == CreateWalletOps(calls[c].kp, Asset(config.Issuer))
RunsOn(c, op)  == OpSource([source |-> Sender(c)], op)

\* C3: in the envelope of createWallet the trustline operation runs on the
\* new account (the account whose key co-signs), not on the funding account,
\* so that the payment that follows finds a trustline on its destination.
C3_TrustlineOnNewAccount ==
    \A c \in Slots :
        (IsCreate(c) /\ FetchedAccount(c)) =>
            /\ OpsOfCreate(c)[2].type = "ChangeTrust"
            /\ RunsOn(c, OpsOfCreate(c)[2]) = calls[c].kp

-----------------------------------------------------------------------------
(* C4 *)

\* The ledger effects of the account-creation envelope for new key k.
AccountCreated(k) == ledger[k].exists
Funded(k)         == ledger[k].usdc > 0
Trusting(k)       == ledger[k].trust

\* C4: whenever createWallet returns an error, at whatever stage, the caller
\* receives no public address and no secret key and the ledger shows none of
\* the three effects; the three effects appear only all together.
C4_NoPartialState ==
    /\ \A c \in Slots :
          (IsCreate(c) /\ Failed(c)) =>
             /\ calls[c].result.PublicKey = ""
             /\ calls[c].result.SecretKey = NoStr
             /\ calls[c].result.Hash = NoHash
             /\ calls[c].http = StatusInternalServerError
             /\ calls[c].kp # "" =>
                   ~AccountCreated(calls[c].kp) /\ ~Funded(calls[c].kp)
    /\ \A k \in NewKeys :
          /\ AccountCreated(k) <=> Funded(k)
          /\ Trusting(k) => AccountCreated(k)

\* Witness: a createWallet that had generated its keypair and fetched the
\* funding account returned an error from the build of its envelope.
C4_FailedAtBuild ==
    \E c \in Slots :
        /\ ServedCreate(c) /\ Failed(c) /\ BuildError(calls[c].result)
        /\ calls[c].http = StatusInternalServerError

-----------------------------------------------------------------------------
(* C6 *)

NoNetworkCall(c) == calls[c].fetches = 0 /\ calls[c].submits = 0

\* C6: transferFunds with an amount that does not parse as a positive
\* decimal returns InvalidAmount and performs no network call at all (stated
\* for requests whose body binds and whose secret and recipient are
\* well-formed, so that the amount is the only input at fault).
C6_BadAmountNoNetwork ==
    \A c \in Slots :
        (/\ Bound(c)
         /\ ~ParseFull(calls[c].req.FromSecretKey).err
         /\ ~ParseAddress(calls[c].req.ToPublicKey).err
         /\ ~IsPositiveDecimal(calls[c].req.Amount)) =>
            /\ NoNetworkCall(c)
            /\ Done(c) => InvalidAmount(calls[c].result)

-----------------------------------------------------------------------------
(* C7 *)

\* The body binds and its recipient is not an address.
MalformedRecipient(c) == Bound(c) /\ ParseAddress(calls[c].req.ToPublicKey).err

\* C7 (as claimed): with a malformed recipient address transferFunds
\* returns InvalidAddress before any account fetch, for every sender secret
\* and amount.
C7_InvalidAddressAlways ==
    \A c \in Slots :
        MalformedRecipient(c) =>
            Done(c) /\ InvalidAddress(calls[c].result) /\ NoNetworkCall(c)

\* C7 (amended): with a malformed recipient address transferFunds makes no
\* account fetch and no submission, for every sender secret and amount; it
\* returns InvalidAddress when the sender secret parses, and the
\* invalid-sender-secret error when it does not.
C7_InvalidAddressFirst ==
    \A c \in Slots :
        MalformedRecipient(c) =>
            /\ Done(c) /\ NoNetworkCall(c)
            /\ calls[c].http = StatusBadRequest
            /\ IF ParseFull(calls[c].req.FromSecretKey).err
               THEN InvalidKey(calls[c].result)
               ELSE InvalidAddress(calls[c].result)

\* Witness: a transfer with a good secret, a good amount and a malformed
\* recipient was refused.
C7_RecipientRefused ==
    \E c \in Slots :
        /\ MalformedRecipient(c) /\ Done(c)
        /\ ~ParseFull(calls[c].req.FromSecretKey).err
        /\ calls[c].req.Amount = "1"
        /\ InvalidAddress(calls[c].result)

-----------------------------------------------------------------------------
(* C8 *)

NotFoundAnswer(e) == e.isErr /\ e.horizon /\ e.status = StatusNotFound

DoesNotExistShape(res, a) ==
    /\ res.status = "ok" /\ res.PublicKey = a /\ ~res.Exists
    /\ res.Balances = <<>> /\ res.SequenceNumber = 0

\* C8: getWalletDetails on a well-formed address that was never created
\* returns the success shape exists = false, no balances, sequence 0 (when
\* the node answers, its answer is NotFound); any other fetch failure
\* returns an error and never that shape.
C8_NotFoundIsSuccess ==
    \A c \in Slots :
        (IsDetails(c) /\ Done(c) /\ calls[c].fetches = 1) =>
            LET a == calls[c].req.PublicKey.of
                e == calls[c].lastErr
            IN  /\ (calls[c].answer = "node" /\ ~ledger[a].exists) => NotFoundAnswer(e)
                /\ NotFoundAnswer(e) =>
                      /\ DoesNotExistShape(calls[c].result, a)
                      /\ calls[c].http = StatusOK
                /\ (e.isErr /\ ~NotFoundAnswer(e)) =>
                      /\ calls[c].result.status = "err"
                      /\ calls[c].http = StatusInternalServerError

\* Witness: details of the never-created address were asked and answered.
C8_AbsentAnswered ==
    \E c \in Slots :
        /\ IsDetails(c) /\ Done(c) /\ calls[c].req.PublicKey = AddrStr(Absent)
        /\ calls[c].answer = "node"
        /\ DoesNotExistShape(calls[c].result, Absent)

-----------------------------------------------------------------------------
(* C10 *)

\* C10: no internal retries: a createWallet or transferFunds call performs
\* at most one account fetch and at most one submission, a getWalletDetails
\* call at most one account fetch and no submission, whatever the node
\* answers.
C10_NoRetries ==
    \A c \in Slots :
        /\ calls[c].fetches <= 1
        /\ calls[c].submits <= 1
        /\ IsDetails(c) => calls[c].submits = 0
        /\ Done(c) => calls[c].submits <= calls[c].fetches

\* Witness: a transfer whose account fetch the node failed to serve and a
\* getWalletDetails the node answered have both returned after one fetch.
C10_FailedFetchOnce ==
    \E c, d \in Slots :
        /\ IsTransfer(c) /\ Failed(c) /\ calls[c].answer # "node"
        /\ calls[c].lastErr.isErr /\ calls[c].fetches = 1
        /\ IsDetails(d) /\ Done(d) /\ calls[d].answer = "node" /\ calls[d].fetches = 1

-----------------------------------------------------------------------------
(* C11 *)

\* The error transferFunds returns when the node answers that the sender
\* account does not exist.
SenderNotFound(res) ==
    res = Err("failed to fetch sender account details: ",
              ErrorText(HorizonError(StatusNotFound, "Resource Missing")))

\* C11: transferFunds whose sender account does not exist on the ledger
\* returns a hard error that tells NotFound (different from the error of any
\* other failed fetch), answered as a server error, and builds and submits
\* nothing; it never returns a success result.
C11_SenderNotFoundIsError ==
    \A c \in Slots :
        (IsTransfer(c) /\ calls[c].fetches = 1 /\ calls[c].submits = 0) =>
            LET e == calls[c].lastErr
            IN  /\ (calls[c].answer = "node" /\ ~ledger[Sender(c)].exists) =>
                      NotFoundAnswer(e)
                /\ NotFoundAnswer(e) =>
                      /\ Done(c) /\ SenderNotFound(calls[c].result)
                      /\ calls[c].http = StatusInternalServerError
                      /\ calls[c].env = NoEnv
                /\ (e.isErr /\ ~NotFoundAnswer(e)) =>
                      /\ Failed(c) /\ ~SenderNotFound(calls[c].result)
                      /\ calls[c].http = StatusInternalServerError

\* Witness: a transfer from the never-created address was answered by the
\* node and ended with the NotFound error.
C11_AbsentSenderRefused ==
    \E c \in Slots :
        /\ IsTransfer(c) /\ Done(c) /\ Sender(c) = Absent
        /\ calls[c].answer = "node" /\ calls[c].submits = 0
        /\ SenderNotFound(calls[c].result)

-----------------------------------------------------------------------------
(* C12 *)

\* The errors SubmitTransaction returns: the node's refusal of the envelope
\* (a problem document with the result code), the node not reached, and the
\* node or a gateway before it giving no verdict.
NodeRefusal == {HorizonError(400, code) : code \in {"tx_bad_seq", "tx_failed", "tx_too_late"}}
NodeSilence == {TransportError, HorizonError(503, "Service Unavailable"),
                HorizonError(504, "Timeout")}

\* C12: a submission failure is reported as Rejected exactly when the node
\* validated and refused the transaction, with the node's detail text
\* verbatim, and as Unavailable exactly when the node was unreachable or
\* timed out; and the failure of a served write is one of the two.
C12_RejectedOrUnavailable ==
    /\ \A e \in NodeRefusal :
          Rejected(SubmitError(e)) /\ SubmitError(e).detail = e.detail
    /\ \A e \in NodeSilence :
          Unavailable(SubmitError(e)) /\ ~Rejected(SubmitError(e))
    /\ \A c \in Slots :
          ((ServedCreate(c) \/ ServedTransfer(c)) /\ Failed(c)) =>
             Rejected(calls[c].result) \/ Unavailable(calls[c].result)

\* The part of C12 that is about the mapping of the error alone.
SubmitErrorTellsSilence ==
    \A e \in NodeSilence : Unavailable(SubmitError(e)) /\ ~Rejected(SubmitError(e))

-----------------------------------------------------------------------------
(* C13 *)

\* The request carries an input the spec's validation refuses.
InvalidInput(c) ==
    \/ IsDetails(c) /\ ParseAddress(calls[c].req.PublicKey).err
    \/ IsTransfer(c) /\ \/ ParseFull(calls[c].req.FromSecretKey).err
                        \/ ParseAddress(calls[c].req.ToPublicKey).err
                        \/ ~IsPositiveDecimal(calls[c].req.Amount)

\* C13: a request with an invalid input (address in getWalletDetails;
\* sender secret, recipient address or amount in transferFunds) is answered
\* with a client error, and every other error, any createWallet failure
\* included, with a server error.
C13_ClientErrorIffInvalidInput ==
    \A c \in Slots :
        /\ (Done(c) /\ InvalidInput(c)) => Failed(c) /\ calls[c].http = StatusBadRequest
        /\ (Failed(c) /\ ~InvalidInput(c)) => calls[c].http = StatusInternalServerError

-----------------------------------------------------------------------------
(* C14 *)

\* The node applied the envelope of request c.
Landed(c) == calls[c].submits = 1 /\ calls[c].verdict = "tx_success"

\* C14: write operations are not idempotent: a transfer can land while its
\* caller is told of a failure, and the repeated request lands again.  The
\* first step of that: a served transfer from User1 to User2 reaches the
\* node with its envelope, whatever the caller is then told.
C14_TransferReachesNode ==
    \A c \in Slots :
        (PlainTransfer(c) /\ Done(c)) => calls[c].submits = 1

\* No transfer is applied, once or twice: no balance ever changes.
NeverApplied ==
    /\ \A c \in Slots : ~Landed(c)
    /\ \A a \in Addresses : Usdc(ledger, a) = Usdc(InitLedger, a)

-----------------------------------------------------------------------------
(* C15 *)

\* c and d are answered getWalletDetails calls for the same address, both
\* answered by the node, with no transaction taken by the ledger between
\* their account fetches.
SameRead(c, d) ==
    /\ IsDetails(c) /\ IsDetails(d) /\ Done(c) /\ Done(d)
    /\ calls[c].req.PublicKey = calls[d].req.PublicKey
    /\ calls[c].fetches = 1 /\ calls[d].fetches = 1
    /\ calls[c].answer = "node" /\ calls[d].answer = "node"
    /\ calls[c].at = calls[d].at

\* C15: getWalletDetails is a pure read: every step of a getWalletDetails
\* call leaves the whole ledger unchanged and submits nothing, and calls for
\* the same address with no committed write between them return the same
\* result, in whatever order they and other requests interleave.
C15_PureRead ==
    [][/\ \A c \in Slots :
            (calls'[c] # calls[c] /\ (IsDetails(c) \/ calls'[c].kind = "details")) =>
               /\ ledger' = ledger
               /\ calls'[c].submits = 0 /\ calls'[c].env = NoEnv
       /\ \A c, d \in Slots :
            SameRead(c, d)' => calls'[c].result = calls'[d].result]_vars

\* Witness: two getWalletDetails calls for User1 were in flight together
\* and returned the same result, with User1's balance of the asset in it.
C15_TwoReads ==
    \E c, d \in Slots :
        /\ c # d /\ SameRead(c, d) /\ calls[c].req.PublicKey = AddrStr(User1)
        /\ calls[c].result.Exists /\ calls[c].result = calls[d].result
        /\ Len(calls[c].result.Balances) = 2
        /\ calls[c].result.SequenceNumber = ledger[User1].seq

-----------------------------------------------------------------------------
(* C16 *)

\* C16: the only result that carries secret key material is the response of
\* a successful createWallet, and what it carries is the secret of the new
\* account; no error result, and no transferFunds or getWalletDetails
\* response, carries the new account's secret, the sender's or the master's.
C16_SecretOnlyInCreateResponse ==
    \A c \in Slots :
        LET res == calls[c].result
        IN  /\ res.SecretKey # NoStr =>
                  /\ IsCreate(c) /\ Succeeded(c)
                  /\ res.SecretKey = Seed(calls[c].kp)
                  /\ res.SecretKey # config.MasterSecret
            /\ Failed(c) => res.SecretKey = NoStr
            /\ (IsTransfer(c) \/ IsDetails(c)) => res.SecretKey = NoStr

\* Witness: a createWallet that had generated its keypair failed, and a
\* transferFunds given the secret of User1 was refused for its recipient;
\* neither result carries a secret.
C16_ResultsWithoutSecrets ==
    \E c, d \in Slots :
        /\ IsCreate(c) /\ Failed(c) /\ calls[c].kp # ""
        /\ IsTransfer(d) /\ Failed(d) /\ InvalidAddress(calls[d].result)
        /\ calls[d].req.FromSecretKey = Seed(User1)
        /\ calls[c].result.SecretKey = NoStr /\ calls[d].result.SecretKey = NoStr

-----------------------------------------------------------------------------
(* C20 *)

\* C20: transferFunds checks the sender secret, then the recipient address,
\* then the amount, and reports the first failure only: the
\* invalid-sender-secret error when the secret is invalid, whatever the
\* other inputs; the invalid-recipient error when the secret is valid and
\* the recipient malformed, whatever the amount; the invalid-amount error
\* when only the amount is invalid; and in all three cases it makes no
\* network call (stated for requests whose body binds).
C20_FirstFailureOnly ==
    \A c \in Slots :
        (Bound(c) /\ InvalidInput(c)) =>
            /\ Done(c) /\ NoNetworkCall(c)
            /\ IF ParseFull(calls[c].req.FromSecretKey).err
                  THEN InvalidKey(calls[c].result)
               ELSE IF ParseAddress(calls[c].req.ToPublicKey).err
                  THEN InvalidAddress(calls[c].result)
               ELSE InvalidAmount(calls[c].result)

-----------------------------------------------------------------------------
(* C21 *)

\* C21: the endpoint and the passphrase are selected for the same network:
\* the client of the test network is configured exactly when the network
\* string is "testnet", every other string configures the client of the
\* public network, and the passphrase the service selects for the configured
\* string is that of the network the configured endpoint serves.
C21_SameNetworkForBoth ==
    /\ (config.HorizonClient = DefaultTestNetClient) <=> (config.Network = "testnet")
    /\ (config.HorizonClient = DefaultPublicNetClient) <=> (config.Network # "testnet")
    /\ NetworkPassphrase(config.Network) = ServedNetwork(config.HorizonClient)
    /\ HandlerPassphrase(config.Network) = ServedNetwork(config.HorizonClient)
    /\ (NetworkPassphrase(config.Network) = NetworkPassphrase("testnet"))
          <=> (config.Network = "testnet")

\* Witness: a service started with the network name misspelled has served a
\* write request through the client of the public network, for which it
\* selects the passphrase too.
C21_MisspelledGoesPublic ==
    \E c \in Slots :
        /\ config.Network = "Testnet"
        /\ config.HorizonClient = DefaultPublicNetClient
        /\ NetworkPassphrase(config.Network) = NetworkPassphrase("public")
        /\ IsWrite(c) /\ Done(c) /\ FetchedAccount(c)

-----------------------------------------------------------------------------
(* C22.  The single-file handlers and the controllers with the service are *)
(* equivalent.  Run on the same request and the same answers of the node,  *)
(* the two are at every moment at the same position, have made the same    *)
(* network calls in the same order (the same account fetched, the same     *)
(* envelope submitted), and, once they have answered, have answered with   *)
(* the same response class and, on success, the same payload.              *)

\* The network calls a request of the service has made, in order.
ServiceCalls(c) ==
    (IF calls[c].fetches > 0
     THEN << <<"AccountDetail",
               IF IsDetails(c) THEN calls[c].req.PublicKey.of ELSE calls[c].signer.addr>> >>
     ELSE <<>>)
    \o (IF calls[c].submits > 0 THEN << <<"SubmitTransaction", calls[c].env>> >> ELSE <<>>)

ResponseClass(http) ==
    CASE http = StatusOK         -> "success"
      [] http = StatusBadRequest -> "client error"
      [] http = StatusInternalServerError -> "server error"
      [] OTHER                   -> "none"

C22_HandlersEquivalent ==
    \A c \in Slots :
        /\ handlers[c].pc = calls[c].pc
        /\ calls[c].fetches <= 1 /\ calls[c].submits <= 1
        /\ handlers[c].log = ServiceCalls(c)
        /\ ResponseClass(handlers[c].http) = ResponseClass(calls[c].http)
        /\ calls[c].http = StatusOK => handlers[c].body = calls[c].result

\* Both programs have answered a getWalletDetails with the same account
\* after the same fetch, and a transfer with a server error after the fetch
\* of its sender account.
C22_BothAnswered ==
    \E c, d \in Slots :
        /\ IsDetails(c) /\ Done(c)
        /\ handlers[c].http = StatusOK /\ calls[c].http = StatusOK
        /\ Len(handlers[c].log) = 1 /\ handlers[c].body.Exists
        /\ handlers[c].body = calls[c].result
        /\ IsTransfer(d) /\ Done(d) /\ Len(handlers[d].log) = 1
        /\ handlers[d].http = StatusInternalServerError
        /\ handlers[d].body.msg = "Failed to build transaction: "
        /\ calls[d].result.msg = "failed to build transaction: "

====
